---- MODULE Spec2Model ----
(***************************************************************************)
(* Model of the SD-card SPI driver (package sd): the card session          *)
(* SPICard with Init / ReadBlock / WriteBlock, the command engine (cmd,    *)
(* appCmd, cmdEnsure0Status, putCmd), the wait loops (waitNotBusy,         *)
(* waitStartBlock), the register reads, and the CSD decoder and CRC7 of    *)
(* definitions.go.                                                         *)
(*                                                                         *)
(* Every bus call (Tx / Transfer) is one step: the bytes the card answers  *)
(* and the error the transport returns are chosen by the environment.      *)
(* The clock is external: expired() is an environment choice at every      *)
(* check, forced to TRUE after a bounded number of loop iterations.        *)
(***************************************************************************)
EXTENDS Integers, Sequences, FiniteSets, TLC

(***************************************************************************)
(* Bounds of the model.                                                    *)
(***************************************************************************)
\* iterations a deadline loop (waitNotBusy, waitStartBlock) can make
MaxPolls == 1
\* iterations of the CMD0 loop and of the ACMD41 loop of Init
MaxTries == 1
\* response polls of cmd that are followed one at a time; past this
\* number the card either answers or stays silent up to the limit 0xFFFF
MaxRespPolls == 1
\* calls of Init / ReadBlock / WriteBlock in one behaviour
MaxCalls == 3
\* transport errors the bus returns in one behaviour
MaxBusErrs == 1

(***************************************************************************)
(* Bytes and bit operations (Go uint8 / uint16 operators).                 *)
(***************************************************************************)
Byte == 0..255

RECURSIVE BitAnd(_, _)
BitAnd(x, y) ==
  IF x = 0 \/ y = 0 THEN 0
  ELSE (x % 2) * (y % 2) + 2 * BitAnd(x \div 2, y \div 2)

RECURSIVE BitOr(_, _)
BitOr(x, y) ==
  IF x = 0 THEN y
  ELSE IF y = 0 THEN x
  ELSE (IF x % 2 = 1 \/ y % 2 = 1 THEN 1 ELSE 0) + 2 * BitOr(x \div 2, y \div 2)

RECURSIVE BitXor(_, _)
BitXor(x, y) ==
  IF x = 0 THEN y
  ELSE IF y = 0 THEN x
  ELSE ((x + y) % 2) + 2 * BitXor(x \div 2, y \div 2)

\* x << n and x >> n on a w-bit unsigned value
Shl(x, n, w) == (x * (2 ^ n)) % (2 ^ w)
Shr(x, n) == x \div (2 ^ n)

(***************************************************************************)
(* Unsigned 32/64-bit arithmetic.  A wide number is a little-endian        *)
(* sequence of NLimbs limbs in base 2^15, so that every intermediate       *)
(* product stays inside the integers of the checker.                       *)
(***************************************************************************)
LimbBase == 2 ^ 15
NLimbs == 4 + 1

WZero == [i \in 1..NLimbs |-> 0]

\* n is a non-negative integer below 2^31
WFromInt(n) ==
  [i \in 1..NLimbs |->
     IF i = 1 THEN n % LimbBase
     ELSE IF i = 2 THEN (n \div LimbBase) % LimbBase
     ELSE IF i = 3 THEN n \div (LimbBase * LimbBase)
     ELSE 0]

RECURSIVE WCarryAt(_, _)
\* carry into limb i when the limbs of v (each below 2^31 - 2^16) are normalised
WCarryAt(v, i) == IF i = 1 THEN 0 ELSE (v[i - 1] + WCarryAt(v, i - 1)) \div LimbBase

WNorm(v) == [i \in 1..NLimbs |-> (v[i] + WCarryAt(v, i)) % LimbBase]

WAdd(a, b) == WNorm([i \in 1..NLimbs |-> a[i] + b[i]])

\* a * d * LimbBase^k for a limb d, truncated to NLimbs limbs
WMulLimb(a, d, k) ==
  WNorm([i \in 1..NLimbs |-> IF i - k >= 1 THEN a[i - k] * d ELSE 0])

RECURSIVE WMulFrom(_, _, _)
WMulFrom(a, b, j) ==
  IF j > NLimbs THEN WZero
  ELSE WAdd(WMulLimb(a, b[j], j - 1), WMulFrom(a, b, j + 1))

WMul(a, b) == WMulFrom(a, b, 1)

\* a mod 2^bits (conversion to uintN)
WTrunc(a, bits) ==
  [i \in 1..NLimbs |->
     IF 15 * i <= bits THEN a[i]
     ELSE IF 15 * (i - 1) < bits THEN a[i] % (2 ^ (bits - 15 * (i - 1)))
     ELSE 0]

RECURSIVE WRemAt(_, _, _)
\* remainder carried into limb i by the long division of a by d (d <= 2^15)
WRemAt(a, d, i) ==
  IF i = NLimbs THEN 0
  ELSE (WRemAt(a, d, i + 1) * LimbBase + a[i + 1]) % d

WDiv(a, d) == [i \in 1..NLimbs |-> (WRemAt(a, d, i) * LimbBase + a[i]) \div d]

RECURSIVE WLessFrom(_, _, _)
WLessFrom(a, b, i) ==
  IF i = 0 THEN FALSE
  ELSE IF a[i] # b[i] THEN a[i] < b[i]
  ELSE WLessFrom(a, b, i - 1)

WLess(a, b) == WLessFrom(a, b, NLimbs)

\* math.MaxUint32
MaxUint32 == [i \in 1..NLimbs |-> IF i <= 2 THEN LimbBase - 1 ELSE IF i = 3 THEN 3 ELSE 0]

\* an int64 n (here |n| < 2^31) compared with a wide number: n >= w
IntGeW(n, w) == n >= 0 /\ ~WLess(WFromInt(n), w)

(***************************************************************************)
(* definitions.go: CRC7                                                    *)
(***************************************************************************)
crc7_table ==
  <<
       0, 18, 36, 54, 72, 90, 108, 126,
       144, 130, 180, 166, 216, 202, 252, 238,
       50, 32, 22, 4, 122, 104, 94, 76,
       162, 176, 134, 148, 234, 248, 206, 220,
       100, 118, 64, 82, 44, 62, 8, 26,
       244, 230, 208, 194, 188, 174, 152, 138,
       86, 68, 114, 96, 30, 12, 58, 40,
       198, 212, 226, 240, 142, 156, 170, 184,
       200, 218, 236, 254, 128, 146, 164, 182,
       88, 74, 124, 110, 16, 2, 52, 38,
       250, 232, 222, 204, 178, 160, 150, 132,
       106, 120, 78, 92, 34, 48, 6, 20,
       172, 190, 136, 154, 228, 246, 192, 210,
       60, 46, 24, 10, 116, 102, 80, 66,
       158, 140, 186, 168, 214, 196, 242, 224,
       14, 28, 42, 56, 70, 84, 98, 112,
       130, 144, 166, 180, 202, 216, 238, 252,
       18, 0, 54, 36, 90, 72, 126, 108,
       176, 162, 148, 134, 248, 234, 220, 206,
       32, 50, 4, 22, 104, 122, 76, 94,
       230, 244, 194, 208, 174, 188, 138, 152,
       118, 100, 82, 64, 62, 44, 26, 8,
       212, 198, 240, 226, 156, 142, 184, 170,
       68, 86, 96, 114, 12, 30, 40, 58,
       74, 88, 110, 124, 2, 16, 38, 52,
       218, 200, 254, 236, 146, 128, 182, 164,
       120, 106, 92, 78, 48, 34, 20, 6,
       232, 250, 204, 222, 160, 178, 132, 150,
       46, 60, 10, 24, 102, 116, 66, 80,
       190, 172, 154, 136, 246, 228, 210, 192,
       28, 14, 56, 42, 84, 70, 112, 98,
       140, 158, 168, 186, 196, 214, 224, 242
  >>

RECURSIVE CRC7From(_, _, _)
CRC7From(data, i, crc) ==
  IF i > Len(data) THEN crc
  ELSE CRC7From(data, i + 1, crc7_table[BitXor(crc, data[i]) + 1])

CRC7(data) == CRC7From(data, 1, 0)

(***************************************************************************)
(* definitions.go: CSD register decoder.  A CSD is its 16 raw bytes;       *)
(* D(c, i) is c.data[i].                                                   *)
(***************************************************************************)
D(c, i) == c[i + 1]

ZeroReg == [i \in 1..16 |-> 0]

CSDStructure(c) == Shr(D(c, 0), 6)

ReadBlockLen(c) == Shl(1, BitAnd(D(c, 5), 15), 16)

CSD_IsValid(c) == BitOr(CRC7(SubSeq(c, 1, 15)), 128) = D(c, 15)

CSDv2_csize(c) ==
  BitOr(BitOr(Shr(D(c, 7), 2) * 65536, D(c, 8) * 256), D(c, 9))

CSDv2_DeviceCapacity(c) == WMul(WFromInt(CSDv2_csize(c)), WFromInt(512000))

CSDv1_csize(c) ==
  BitOr(BitOr(Shr(D(c, 8), 6), D(c, 7) * 4), BitAnd(D(c, 6), 3) * 1024)

CSDv1_csizemult(c) == BitOr(Shl(BitAnd(D(c, 9), 3), 1, 8), Shr(D(c, 10), 7))

CSDv1_mult(c) == Shl(1, 2 + CSDv1_csizemult(c), 16)

CSDv1_DeviceCapacity(c) ==
  LET mult    == CSDv1_mult(c)
      csize   == CSDv1_csize(c)
      blklen  == ReadBlockLen(c)
      blockNR == WTrunc(WMul(WFromInt(csize + 1), WFromInt(mult)), 32)
  IN  WTrunc(WMul(blockNR, WFromInt(blklen)), 32)

DeviceCapacity(c) ==
  IF CSDStructure(c) = 0 THEN CSDv1_DeviceCapacity(c)
  ELSE IF CSDStructure(c) = 1 THEN CSDv2_DeviceCapacity(c)
  ELSE WZero

CSD_NumberOfBlocks(c) ==
  LET rblocks == ReadBlockLen(c)
  IN  IF rblocks = 0 THEN WZero ELSE WDiv(DeviceCapacity(c), rblocks)

DecodeCSD(b) == IF Len(b) < 16 THEN ZeroReg ELSE SubSeq(b, 1, 16)

\* CSD.TAAC and CSD.TransferSpeed: bytes 1 and 3 of the register
CSD_TAAC(c) == D(c, 1)
CSD_TransferSpeed(c) == D(c, 3)

\* definitions.go: log10table, an array of seven entries
log10table == <<1, 10, 100, 1000, 10000, 100000, 1000000>>

\* log10table[i]: the entry, or the run-time panic of an index past the array
TableAt(i) ==
  IF i < Len(log10table)
  THEN [panic |-> FALSE, value |-> log10table[i + 1]]
  ELSE [panic |-> TRUE, value |-> 0]

\* TransferSpeed.RateKilobits
RateKilobits(t) ==
  LET e == TableAt(BitAnd(t, 7))
  IN  IF e.panic THEN e ELSE [panic |-> FALSE, value |-> 100 * e.value]

\* TAAC.AccessTime, in nanoseconds
AccessTime(t) == TableAt(BitAnd(t, 7))

\* CSD.String: whether it returns or panics in appendf; value is the version
\* printed, 0 for "<unsupported CSD version>"
CSD_String(c) ==
  LET version == CSDStructure(c) + 1 IN
  IF version > 2 THEN [panic |-> FALSE, value |-> 0]
  ELSE IF AccessTime(CSD_TAAC(c)).panic \/ RateKilobits(CSD_TransferSpeed(c)).panic
  THEN [panic |-> TRUE, value |-> 0]
  ELSE [panic |-> FALSE, value |-> version]

\* the CID struct keeps bytes 0..14 of the register image (the CRC byte is dropped)
DecodeCID(b) == IF Len(b) < 16 THEN ZeroReg ELSE [i \in 1..16 |-> IF i <= 15 THEN b[i] ELSE 0]

(***************************************************************************)
(* definitions.go / card.go: constants                                     *)
(***************************************************************************)
TypeSD1 == 1
TypeSD2 == 2
TypeSDHC == 3

CMD0_GO_IDLE_STATE == 0
CMD8_SEND_IF_COND == 8
CMD9_SEND_CSD == 9
CMD10_SEND_CID == 10
CMD16_SET_BLOCKLEN == 16
CMD17_READ_SINGLE_BLOCK == 17
CMD24_WRITE_BLOCK == 24
CMD55_APP_CMD == 55
CMD58_READ_OCR == 58
ACMD41_SD_APP_OP_COND == 41

R1_IDLE_STATE == 1
R1_ILLEGAL_COMMAND == 4

\* len(SPICard.buf), and the buffer length ReadBlock / WriteBlock require
BlockLen == 512
\* bytes of a CID / CSD register
RegLen == 16
\* response polls of cmd
RespLimit == 65535

IllegalCmdError(r) == BitAnd(r, R1_ILLEGAL_COMMAND) # 0

(***************************************************************************)
(* Errors.  An error value is a record; response1Err carries the status.   *)
(***************************************************************************)
Err(n) == [name |-> n, status |-> 0]
Nil == Err("nil")
\* the call has not returned yet
Pending == Err("pending")
\* the error the transport (drivers.SPI) returns
errTransport == Err("errTransport")
errNoSDCard == Err("errNoSDCard")
errCardNotSupported == Err("errCardNotSupported")
errWaitStartBlock == Err("errWaitStartBlock")
errNeed512 == Err("errNeed512")
errWrite == Err("errWrite")
errWriteTimeout == Err("errWriteTimeout")
errOOB == Err("errOOB")
errNoblocks == Err("errNoblocks")
makeResponseError(st) == [name |-> "response1Err", status |-> st]

(***************************************************************************)
(* The environment: the attached card and what the bus answers.            *)
(***************************************************************************)
CIDImage == <<3, 83, 68, 83, 85, 48, 56, 71, 128, 18, 52, 86, 120, 1, 90, 33>>

\* CSD v1: C_SIZE 0, C_SIZE_MULT 0, READ_BL_LEN 9 (4 blocks of 512 bytes)
CSDv1Small == <<0, 14, 0, 50, 91, 89, 0, 0, 0, 0, 0, 0, 0, 0, 0, 1>>
\* CSD v2: bytes 7..9 = 04 00 01, READ_BL_LEN 9
CSDv2Card == <<64, 14, 0, 50, 91, 89, 0, 4, 0, 1, 0, 0, 0, 0, 0, 1>>
\* CSD v2 with the largest size field and READ_BL_LEN 0: more than 2^32 - 1 blocks
CSDv2Huge == <<64, 14, 0, 50, 91, 80, 0, 252, 255, 255, 0, 0, 0, 0, 0, 1>>
\* CSD v2 with size field 0: no blocks
CSDv2Empty == <<64, 14, 0, 50, 91, 89, 0, 0, 0, 0, 0, 0, 0, 0, 0, 1>>

Cards == { [csd |-> c] : c \in {CSDv1Small, CSDv2Card, CSDv2Huge, CSDv2Empty} }

\* no card has sent its CSD yet
NoCard == [csd |-> <<>>]

\* arguments of the callers of ReadBlock / WriteBlock
BlockInputs == {-1, 0, 4, 8388608}
LenInputs == {511, 512, 513}

\* bytes a card answers while a command response is polled
RespBytes == {0, 1, 5, 192, 255}
\* bytes a card answers while it is polled for not-busy
BusyBytes == {0, 255}
\* bytes a card answers while the data start token is awaited
TokenBytes == {255, 254, 0}
\* bytes of the R7 payload of CMD8
R7Bytes == {0, 1, 170}
\* first byte of the OCR
OcrBytes == {192, 128}
\* data-response tokens of a block write
DataRespBytes == {229, 235, 245}
\* the CRC bytes of a block read
CrcBytes == {18}
\* a block of data as the card returns it
Payload == [i \in 1..BlockLen |-> 165]

VARIABLES
  card,        \* the attached card (environment), known once it sends its CSD
  kind,        \* SPICard.kind; 0 is the zero value
  numblocks,   \* SPICard.numblocks (wide)
  cid,         \* SPICard.cid
  csd,         \* SPICard.csd
  buf,         \* SPICard.buf
  lastCRC,     \* SPICard.lastCRC
  selected,    \* the chip-select line is asserted (cs pin low)
  op,          \* the exported method called last: "none", "Init", "ReadBlock", "WriteBlock"
  pc,          \* position in that method; "done" when it has returned
  cpc,         \* position in cmd: "none", "busy", "frame", "resp", "timeout", "ret"
  result,      \* the error the call returned (Pending while it runs)
  call,        \* arguments of the cmd in progress
  cmdStatus,   \* response1 returned by cmd
  cmdErr,      \* error returned by cmd
  polls,       \* iterations made by the deadline loop in progress
  tries,       \* iterations made by the CMD0 / ACMD41 loop of Init
  respI,       \* i of the response loop of cmd
  regI,        \* index of the byte loop in progress
  reg,         \* register being read: "cid" or "csd"
  r1,          \* Init: r1
  statusb,     \* Init: statusb, the first byte of the OCR
  dataResp,    \* WriteBlock: r, the data-response byte
  status,      \* the byte read last by Init (status), waitStartBlock (status), waitNotBusy (r), ReadBlock (hi)
  block,       \* ReadBlock / WriteBlock: argument block
  dst,         \* ReadBlock: the caller's buffer dst
  src,         \* WriteBlock: the caller's buffer src
  cmds,        \* history: the command frames handed to the bus by the call
  mosi,        \* history: the bytes sent by the last bus exchange
  touched,     \* history: the call made a bus exchange
  csTouched,   \* history: the call drove the chip-select line
  errSeen,     \* history: the first transport error a bus exchange of the call returned
  idle0,       \* history: a CMD0 of the call was answered with exactly 0x01
  lastInit,    \* history: how the last call of Init returned: "none", "ok", "err"
  calls,       \* history: calls made
  image,       \* the bytes a function of definitions.go / putCmd is applied to
  fn,          \* the function applied to image, "none" before
  out,         \* what the function returned
  busErrs      \* history: transport errors returned

dev == <<kind, numblocks, cid, csd, buf, lastCRC>>
csv == <<selected, csTouched>>
args == <<block, dst, src>>
loops == <<polls, tries, respI, regI, reg>>
cmdv == <<call, cmdStatus, cmdErr>>
bus == <<mosi, touched, errSeen, busErrs>>
pure == <<image, fn, out>>
session == <<card, dev, csv, args, loops, cmdv, bus, op, pc, cpc, result, r1, status, statusb,
             dataResp, cmds, idle0, lastInit, calls>>
vars == <<session, pure>>

\* the errors the transport may return at the next exchange
BusErrors == IF busErrs < MaxBusErrs THEN {Nil, errTransport} ELSE {Nil}

\* a timer's expired(): the clock is external; after max iterations the deadline has passed
Expired(n, max) == IF n >= max THEN {TRUE} ELSE {TRUE, FALSE}

Filler(n) == [i \in 1..n |-> 255]

\* one call of bus.Tx / bus.Transfer that sends the bytes sent and returns the error e
Exchange(sent, e) ==
  /\ mosi' = sent
  /\ touched' = TRUE
  /\ errSeen' = IF errSeen = Nil THEN e ELSE errSeen
  /\ busErrs' = IF e = Nil THEN busErrs ELSE busErrs + 1

\* csEnable(b)
csEnable(b) ==
  /\ selected' = b
  /\ csTouched' = TRUE

\* return err from the exported method; desel: the deferred csEnable(false) runs
Return(err, desel) ==
  /\ result' = err
  /\ pc' = "done"
  /\ cpc' = "none"
  /\ IF desel THEN csEnable(FALSE) ELSE UNCHANGED csv

\* binary.BigEndian.PutUint32 of uint32(n), for an int64 n with |n| < 2^31
PutUint32(n) ==
  << (n \div 16777216) % 256, (n \div 65536) % 256, (n \div 256) % 256, n % 256 >>

\* binary.BigEndian.PutUint32 of uint32(n << 9), for an int64 n with |n| < 2^31
PutUint32Shl9(n) ==
  << (n \div 32768) % 256, (n \div 128) % 256, (n % 128) * 2, 0 >>

\* putCmd(dst, cmd, arg): the 6-byte frame with the computed CRC byte
putCmd(c, a) ==
  LET head == <<BitOr(64, c)>> \o a
  IN  head \o <<BitOr(Shl(CRC7(head), 1, 8), 1)>>

\* cmd, lines 347-351: select the card and start waitNotBusy(300ms)
StartCmd(c, a, crc) ==
  /\ csEnable(TRUE)
  /\ call' = [cmd |-> c, arg |-> a, crc |-> crc]
  /\ cpc' = "busy"
  /\ polls' = 0

\* cmdEnsure0Status: the error made from what cmd returned
cmdEnsure0Status(st, err) ==
  IF err # Nil THEN err
  ELSE IF st # 0 THEN makeResponseError(st)
  ELSE Nil

\* one iteration of waitNotBusy: "nil" / "err" is the return, "loop" the next iteration
waitNotBusy(expired, r, e) ==
  IF expired THEN "nil"
  ELSE IF e # Nil THEN "err"
  ELSE IF r = 255 THEN "nil"
  ELSE "loop"

\* a variant of waitStartBlock without the check after the loop
waitStartBlock_NoCheck(expired, st, r, e) ==
  IF expired THEN "nil"
  ELSE IF e # Nil THEN "err"
  ELSE IF r # 255 THEN (IF r # 254 THEN "errWaitStartBlock" ELSE "nil")
  ELSE "loop"

\* one iteration of waitStartBlock and the check after the loop
waitStartBlock(expired, st, r, e) ==
  IF expired THEN (IF st # 254 THEN "errWaitStartBlock" ELSE "nil")
  ELSE IF e # Nil THEN "err"
  ELSE IF r # 255 THEN (IF r # 254 THEN "errWaitStartBlock" ELSE "nil")
  ELSE "loop"

NewSPICard ==
  /\ card = NoCard
  /\ kind = 0
  /\ numblocks = WZero
  /\ cid = ZeroReg
  /\ csd = ZeroReg
  /\ buf = [i \in 1..BlockLen |-> 0]
  /\ lastCRC = 0
  /\ selected = FALSE
  /\ op = "none"
  /\ pc = "done"
  /\ cpc = "none"
  /\ result = Nil
  /\ call = [cmd |-> 0, arg |-> PutUint32(0), crc |-> 0]
  /\ cmdStatus = 0
  /\ cmdErr = Nil
  /\ polls = 0
  /\ tries = 0
  /\ respI = 0
  /\ regI = 0
  /\ reg = "cid"
  /\ r1 = 0
  /\ status = 0
  /\ statusb = 0
  /\ dataResp = 0
  /\ idle0 = FALSE
  /\ lastInit = "none"
  /\ block = 0
  /\ dst = <<>>
  /\ src = <<>>
  /\ cmds = <<>>
  /\ mosi = <<>>
  /\ touched = FALSE
  /\ csTouched = FALSE
  /\ errSeen = Nil
  /\ calls = 0
  /\ busErrs = 0

\* a session after construction; no function has been applied to a byte image
Init ==
  /\ NewSPICard
  /\ image = <<>>
  /\ fn = "none"
  /\ out = 0

\* a caller may call an exported method when the previous call has returned;
\* it makes at most MaxCalls calls and stops using the session once the
\* transport has failed
CanCall == pc = "done" /\ calls < MaxCalls /\ busErrs = 0

\* the locals and the history of a call, at its start
Enter(o) ==
  /\ op' = o
  /\ calls' = calls + 1
  /\ cmds' = <<>>
  /\ cmdStatus' = 0
  /\ cmdErr' = Nil
  /\ tries' = 0
  /\ respI' = 0
  /\ regI' = 0
  /\ reg' = "cid"
  /\ r1' = 0
  /\ status' = 0
  /\ statusb' = 0
  /\ dataResp' = 0
  /\ idle0' = FALSE
  /\ mosi' = <<>>
  /\ touched' = FALSE
  /\ errSeen' = Nil
  /\ UNCHANGED busErrs

(***************************************************************************)
(* card.go: cmd                                                            *)
(***************************************************************************)
\* cmd, line 350: waitNotBusy(300ms), whose result cmd drops
CmdWaitNotBusy ==
  /\ cpc = "busy"
  /\ \E expired \in Expired(polls, MaxPolls), r \in BusyBytes, e \in BusErrors :
       LET w == waitNotBusy(expired, r, e) IN
       /\ IF expired THEN UNCHANGED bus ELSE Exchange(<<255>>, e)
       /\ IF w = "loop"
          THEN polls' = polls + 1 /\ cpc' = "busy"
          ELSE polls' = 0 /\ cpc' = "frame"
  /\ UNCHANGED <<card, dev, csv, args, cmdv, op, pc, result, r1, status, cmds, calls,
                 tries, respI, regI, reg>>
  /\ UNCHANGED <<statusb, idle0, lastInit>>
  /\ UNCHANGED <<dataResp, pure>>

\* cmd, lines 354-367: build the frame in bufcmd, overwrite its CRC byte, send it.
\* bufcmd and bufTok are scratch: cmd writes them before every read of them, so
\* the frame and the polled byte are values of this step and of CmdResp.
\* (no caller of this package passes cmd = 12, so the skipped byte of line 363 is never sent)
CmdFrame ==
  /\ cpc = "frame"
  /\ \E e \in BusErrors :
       LET frame == [putCmd(call.cmd, call.arg) EXCEPT ![6] = call.crc] IN
       /\ Exchange(frame, e)
       /\ cmds' = Append(cmds, frame)
       /\ IF e # Nil
          THEN /\ cmdStatus' = 0
               /\ cmdErr' = e
               /\ cpc' = "ret"
          ELSE /\ UNCHANGED <<cmdStatus, cmdErr>>
               /\ cpc' = "resp"
       /\ respI' = 0
  /\ UNCHANGED <<card, kind, numblocks, cid, csd, buf, lastCRC, csv, args, call,
                 op, pc, result, r1, status, calls, polls, tries, regI, reg>>
  /\ UNCHANGED <<statusb, idle0, lastInit>>
  /\ UNCHANGED <<dataResp, pure>>

\* a variant of line 371 that takes every byte but 0xFF for a response
ResponseReady_NotFiller(r) == r # 255

\* cmd, line 371: the test that ends the response poll
ResponseReady(r) == BitAnd(r, 128) = 0

\* cmd, lines 368-374: poll for a byte with the top bit clear; Tx's error is dropped.
\* The first MaxRespPolls polls are single steps; after them a card that has not
\* answered stays silent for all the polls that remain.
CmdResp ==
  /\ cpc = "resp"
  /\ respI < RespLimit
  /\ \E r \in RespBytes, e \in BusErrors :
       /\ Exchange(<<255>>, e)
       /\ idle0' = (idle0 \/ (call.cmd = CMD0_GO_IDLE_STATE /\ r = 1))
       /\ IF ResponseReady(r)
          THEN /\ cmdStatus' = r
               /\ cmdErr' = Nil
               /\ cpc' = "ret"
               /\ respI' = 0
          ELSE /\ UNCHANGED <<cmdStatus, cmdErr>>
               /\ respI' = IF respI < MaxRespPolls THEN respI + 1 ELSE RespLimit
               /\ cpc' = IF respI' < RespLimit THEN "resp" ELSE "timeout"
  /\ UNCHANGED <<card, kind, numblocks, cid, csd, buf, lastCRC, csv, args, call,
                 op, pc, result, r1, status, cmds, calls, polls, tries, regI, reg>>
  /\ UNCHANGED <<statusb, lastInit>>
  /\ UNCHANGED <<dataResp, pure>>

\* cmd, lines 378-381: no response: deselect, send one filler byte, return 0xFF, nil
CmdTimeout ==
  /\ cpc = "timeout"
  /\ \E e \in BusErrors : Exchange(<<255>>, e)
  /\ csEnable(FALSE)
  /\ cmdStatus' = 255
  /\ cmdErr' = Nil
  /\ cpc' = "ret"
  /\ respI' = 0
  /\ UNCHANGED <<card, dev, args, call, op, pc, result, r1, status, cmds, calls,
                 polls, tries, regI, reg>>
  /\ UNCHANGED <<statusb, idle0, lastInit>>
  /\ UNCHANGED <<dataResp, pure>>

(***************************************************************************)
(* card.go: Init                                                           *)
(***************************************************************************)
\* Init returns err; the deferred csEnable(false) of line 59 runs
InitReturn(err) ==
  /\ Return(err, TRUE)
  /\ lastInit' = IF err = Nil THEN "ok" ELSE "err"

\* Init is called: lines 55-61
CallInit ==
  /\ CanCall
  /\ Enter("Init")
  /\ buf' = Filler(BlockLen)
  /\ csEnable(TRUE)
  /\ pc' = "i_clock10"
  /\ result' = Pending
  /\ block' = 0 /\ dst' = <<>> /\ src' = <<>>
  /\ UNCHANGED <<card, kind, numblocks, cid, csd, lastCRC, cpc, call, polls>>
  /\ UNCHANGED lastInit
  /\ UNCHANGED <<pure>>

\* lines 63-64: clock the card with cs high; Tx's error is dropped
InitClock10 ==
  /\ op = "Init" /\ pc = "i_clock10"
  /\ \E e \in BusErrors : Exchange(SubSeq(buf, 1, 10), e)
  /\ csEnable(FALSE)
  /\ pc' = "i_clock"
  /\ UNCHANGED <<card, dev, args, loops, cmdv, op, cpc, result, r1, status, cmds, calls>>
  /\ UNCHANGED <<statusb, idle0, lastInit>>
  /\ UNCHANGED <<dataResp, pure>>

\* lines 66-70: Tx(dummy[:], nil), error dropped; start the 2 s timer
InitClock ==
  /\ op = "Init" /\ pc = "i_clock"
  /\ \E e \in BusErrors : Exchange(buf, e)
  /\ tries' = 0
  /\ pc' = "i_cmd0_loop"
  /\ UNCHANGED <<card, dev, csv, args, cmdv, op, cpc, result, r1, status, cmds, calls,
                 polls, respI, regI, reg>>
  /\ UNCHANGED <<statusb, idle0, lastInit>>
  /\ UNCHANGED <<dataResp, pure>>

\* lines 71-73 and 82-84: the head of the CMD0 loop
InitCmd0Loop ==
  /\ op = "Init" /\ pc = "i_cmd0_loop"
  /\ \E expired \in Expired(tries, MaxTries) :
       IF expired
       THEN /\ InitReturn(errNoSDCard)
            /\ tries' = 0
            /\ UNCHANGED <<call, polls>>
       ELSE /\ StartCmd(CMD0_GO_IDLE_STATE, PutUint32(0), 149)
            /\ tries' = tries + 1
            /\ pc' = "i_cmd0"
            /\ UNCHANGED <<result, lastInit>>
  /\ UNCHANGED <<card, dev, args, bus, op, cmdStatus, cmdErr, r1, status, cmds, calls,
                 respI, regI, reg>>
  /\ UNCHANGED <<statusb, idle0>>
  /\ UNCHANGED <<dataResp, pure>>

\* a variant of line 77 that tests the idle bit alone, as response1.IsIdle does
GoIdleAccepted_IdleBit(st) == BitAnd(st, R1_IDLE_STATE) # 0

\* line 77: the test that ends the CMD0 loop with ok = true
GoIdleAccepted(st) == st = R1_IDLE_STATE

\* lines 73-87: CMD0 has returned
InitAfterCmd0 ==
  /\ op = "Init" /\ pc = "i_cmd0" /\ cpc = "ret"
  /\ IF cmdErr # Nil
     THEN /\ InitReturn(cmdErr)
          /\ UNCHANGED <<call, polls>>
     ELSE IF GoIdleAccepted(cmdStatus)
     THEN /\ StartCmd(CMD8_SEND_IF_COND, PutUint32(426), 135)
          /\ pc' = "i_cmd8"
          /\ UNCHANGED <<result, lastInit>>
     ELSE /\ pc' = "i_cmd0_loop"
          /\ cpc' = "none"
          /\ UNCHANGED <<csv, call, polls, result, lastInit>>
  /\ tries' = IF cmdErr = Nil /\ ~GoIdleAccepted(cmdStatus) THEN tries ELSE 0
  /\ UNCHANGED <<card, dev, args, bus, op, cmdStatus, cmdErr, r1, status, cmds, calls,
                 respI, regI, reg>>
  /\ UNCHANGED <<statusb, idle0>>
  /\ UNCHANGED <<dataResp, pure>>

\* lines 87-96: CMD8 has returned
InitAfterCmd8 ==
  /\ op = "Init" /\ pc = "i_cmd8" /\ cpc = "ret"
  /\ r1' = cmdStatus
  /\ IF cmdErr # Nil
     THEN /\ InitReturn(cmdErr)
          /\ UNCHANGED <<kind, status, regI>>
     ELSE IF IllegalCmdError(cmdStatus)
     THEN /\ kind' = TypeSD1
          /\ InitReturn(errCardNotSupported)
          /\ UNCHANGED <<status, regI>>
     ELSE /\ status' = 0
          /\ regI' = 0
          /\ pc' = "i_r7"
          /\ cpc' = "none"
          /\ UNCHANGED <<kind, csv, result, lastInit>>
  /\ UNCHANGED <<card, numblocks, cid, csd, buf, lastCRC, args, bus, op,
                 cmdv, cmds, calls, polls, tries, respI, reg>>
  /\ UNCHANGED <<statusb, idle0>>
  /\ UNCHANGED <<dataResp, pure>>

\* line 104: the test of the third byte of the R7 response
R7VoltageAccepted(st) == BitAnd(st, 15) = 1

\* a variant of line 115 that takes every byte but 0 for the check pattern
R7PatternEchoed_NonZero(st) == st # 0

\* line 115: the test of the fourth byte of the R7 response
R7PatternEchoed(st) == st = 170

\* lines 97-129: the four bytes of the R7 response, then the 2 s timer of the ACMD41 loop
InitR7 ==
  /\ op = "Init" /\ pc = "i_r7"
  /\ \E r \in R7Bytes, e \in BusErrors :
       /\ Exchange(<<255>>, e)
       /\ status' = r
       /\ IF e # Nil
          THEN /\ InitReturn(e)
               /\ UNCHANGED <<kind, regI, tries>>
          ELSE IF regI = 2 /\ ~R7VoltageAccepted(r)
          THEN /\ InitReturn(makeResponseError(r))
               /\ UNCHANGED <<kind, regI, tries>>
          ELSE IF regI = 3 /\ ~R7PatternEchoed(r)
          THEN /\ InitReturn(makeResponseError(r))
               /\ UNCHANGED <<kind, regI, tries>>
          ELSE IF regI = 3
          THEN /\ kind' = TypeSD2
               /\ tries' = 0
               /\ regI' = 0
               /\ pc' = "i_acmd_loop"
               /\ UNCHANGED <<cpc, csv, result, lastInit>>
          ELSE /\ regI' = regI + 1
               /\ UNCHANGED <<kind, tries, pc, cpc, csv, result, lastInit>>
  /\ UNCHANGED <<card, numblocks, cid, csd, buf, lastCRC, args, op,
                 cmdv, r1, cmds, calls, polls, respI, reg>>
  /\ UNCHANGED <<statusb, idle0>>
  /\ UNCHANGED <<dataResp, pure>>

\* the argument of ACMD41, lines 122-125
Acmd41Arg == IF kind = TypeSD2 THEN <<64, 0, 0, 0>> ELSE PutUint32(0)

\* lines 143-145 and 162: the command sent after the negotiation
AfterNegotiation ==
  IF kind = TypeSD2
  THEN StartCmd(CMD58_READ_OCR, PutUint32(0), 255) /\ pc' = "i_cmd58"
  ELSE StartCmd(CMD16_SET_BLOCKLEN, PutUint32(512), 255) /\ pc' = "i_cmd16"

\* lines 130-131 and 139-141: the head of the ACMD41 loop
InitAcmdLoop ==
  /\ op = "Init" /\ pc = "i_acmd_loop"
  /\ \E expired \in Expired(tries, MaxTries) :
       IF expired
       THEN IF r1 # 0
            THEN /\ InitReturn(makeResponseError(r1))
                 /\ tries' = 0
                 /\ UNCHANGED <<call, polls>>
            ELSE /\ AfterNegotiation
                 /\ tries' = 0
                 /\ UNCHANGED <<result, lastInit>>
       ELSE /\ StartCmd(CMD55_APP_CMD, PutUint32(0), 255)
            /\ tries' = tries + 1
            /\ pc' = "i_cmd55"
            /\ UNCHANGED <<result, lastInit>>
  /\ UNCHANGED <<card, dev, args, bus, op, cmdStatus, cmdErr, r1, status, cmds, calls,
                 respI, regI, reg>>
  /\ UNCHANGED <<statusb, idle0>>
  /\ UNCHANGED <<dataResp, pure>>

\* appCmd, lines 318-322: CMD55 has returned
InitAfterCmd55 ==
  /\ op = "Init" /\ pc = "i_cmd55" /\ cpc = "ret"
  /\ IF cmdErr # Nil
     THEN /\ r1' = cmdStatus
          /\ InitReturn(cmdErr)
          /\ UNCHANGED <<call, polls>>
     ELSE /\ StartCmd(ACMD41_SD_APP_OP_COND, Acmd41Arg, 255)
          /\ pc' = "i_acmd41"
          /\ UNCHANGED <<r1, result, lastInit>>
  /\ tries' = IF cmdErr # Nil THEN 0 ELSE tries
  /\ UNCHANGED <<card, dev, args, bus, op, cmdStatus, cmdErr, status, cmds, calls,
                 respI, regI, reg>>
  /\ UNCHANGED <<statusb, idle0>>
  /\ UNCHANGED <<dataResp, pure>>

\* lines 131-141: ACMD41 has returned
InitAfterAcmd41 ==
  /\ op = "Init" /\ pc = "i_acmd41" /\ cpc = "ret"
  /\ r1' = cmdStatus
  /\ IF cmdErr # Nil
     THEN /\ InitReturn(cmdErr)
          /\ UNCHANGED <<call, polls>>
     ELSE IF cmdStatus = 0
     THEN /\ AfterNegotiation
          /\ UNCHANGED <<result, lastInit>>
     ELSE /\ pc' = "i_acmd_loop"
          /\ cpc' = "none"
          /\ UNCHANGED <<csv, call, polls, result, lastInit>>
  /\ tries' = IF cmdErr = Nil /\ cmdStatus # 0 THEN tries ELSE 0
  /\ UNCHANGED <<card, dev, args, bus, op, cmdStatus, cmdErr, status, cmds, calls,
                 respI, regI, reg>>
  /\ UNCHANGED <<statusb, idle0>>
  /\ UNCHANGED <<dataResp, pure>>

\* lines 145-148: CMD58 has returned
InitAfterCmd58 ==
  /\ op = "Init" /\ pc = "i_cmd58" /\ cpc = "ret"
  /\ LET err == cmdEnsure0Status(cmdStatus, cmdErr) IN
     IF err # Nil
     THEN /\ InitReturn(err)
          /\ UNCHANGED regI
     ELSE /\ pc' = "i_ocr"
          /\ cpc' = "none"
          /\ regI' = 0
          /\ UNCHANGED <<csv, result, lastInit>>
  /\ UNCHANGED <<card, dev, args, bus, op, cmdv, r1, status, cmds, calls,
                 polls, tries, respI, reg>>
  /\ UNCHANGED <<statusb, idle0>>
  /\ UNCHANGED <<dataResp, pure>>

\* a variant of line 154 that tests bit 7 of the OCR's first byte alone
OcrHighCapacity_Bit7(b) == BitAnd(b, 128) = 128

\* line 154: the test of the OCR's first byte that makes the card TypeSDHC
OcrHighCapacity(b) == BitAnd(b, 192) = 192

\* lines 150-156: the first byte of the OCR decides the kind
InitOcrFirst ==
  /\ op = "Init" /\ pc = "i_ocr" /\ regI = 0
  /\ \E b \in OcrBytes, e \in BusErrors :
       /\ Exchange(<<255>>, e)
       /\ statusb' = b
       /\ IF e # Nil
          THEN /\ InitReturn(e)
               /\ UNCHANGED <<kind, regI>>
          ELSE /\ kind' = IF OcrHighCapacity(b) THEN TypeSDHC ELSE kind
               /\ regI' = 1
               /\ UNCHANGED <<pc, cpc, csv, result, lastInit>>
  /\ UNCHANGED <<card, numblocks, cid, csd, buf, lastCRC, args, op,
                 cmdv, r1, status, cmds, calls, polls, tries, respI, reg>>
  /\ UNCHANGED <<idle0>>
  /\ UNCHANGED <<dataResp, pure>>

\* lines 158-162: the rest of the OCR is read and dropped, errors included; then CMD16
InitOcrRest ==
  /\ op = "Init" /\ pc = "i_ocr" /\ regI >= 1
  /\ \E e \in BusErrors : Exchange(<<255>>, e)
  /\ IF regI < 3
     THEN /\ regI' = regI + 1
          /\ UNCHANGED <<pc, cpc, csv, call, polls>>
     ELSE /\ regI' = 0
          /\ StartCmd(CMD16_SET_BLOCKLEN, PutUint32(512), 255)
          /\ pc' = "i_cmd16"
  /\ UNCHANGED <<card, dev, args, op, result, cmdStatus, cmdErr, r1, status, cmds, calls,
                 tries, respI, reg>>
  /\ UNCHANGED <<statusb, idle0, lastInit>>
  /\ UNCHANGED <<dataResp, pure>>

\* lines 162-168: CMD16 has returned; readCID starts readRegister(CMD10_SEND_CID)
InitAfterCmd16 ==
  /\ op = "Init" /\ pc = "i_cmd16" /\ cpc = "ret"
  /\ LET err == cmdEnsure0Status(cmdStatus, cmdErr) IN
     IF err # Nil
     THEN /\ InitReturn(err)
          /\ UNCHANGED <<call, polls, reg>>
     ELSE /\ StartCmd(CMD10_SEND_CID, PutUint32(0), 255)
          /\ reg' = "cid"
          /\ pc' = "i_reg_cmd"
          /\ UNCHANGED <<result, lastInit>>
  /\ UNCHANGED <<card, dev, args, bus, op, cmdStatus, cmdErr, r1, status, cmds, calls,
                 tries, respI, regI>>
  /\ UNCHANGED <<statusb, idle0>>
  /\ UNCHANGED <<dataResp, pure>>

(***************************************************************************)
(* card.go: readCID, readCSD, readRegister                                 *)
(***************************************************************************)
\* readCID / readCSD return the zero register with an error, and Init stores it
RegFail(err) ==
  /\ InitReturn(err)
  /\ IF reg = "cid" THEN cid' = ZeroReg /\ UNCHANGED csd
                    ELSE csd' = ZeroReg /\ UNCHANGED cid

\* readRegister, lines 295-299: CMD10 / CMD9 has returned
ReadRegisterAfterCmd ==
  /\ op = "Init" /\ pc = "i_reg_cmd" /\ cpc = "ret"
  /\ LET err == cmdEnsure0Status(cmdStatus, cmdErr) IN
     IF err # Nil
     THEN /\ RegFail(err)
          /\ UNCHANGED <<status, polls>>
     ELSE /\ status' = 255
          /\ polls' = 0
          /\ pc' = "i_reg_wsb"
          /\ cpc' = "none"
          /\ UNCHANGED <<cid, csd, csv, result, lastInit>>
  /\ UNCHANGED <<card, kind, numblocks, buf, lastCRC, args, bus, op,
                 cmdv, r1, cmds, calls, tries, respI, regI, reg>>
  /\ UNCHANGED <<statusb, idle0>>
  /\ UNCHANGED <<dataResp, pure>>

\* readRegister, line 299: waitStartBlock
ReadRegisterWaitStartBlock ==
  /\ op = "Init" /\ pc = "i_reg_wsb"
  /\ \E expired \in Expired(polls, MaxPolls), r \in TokenBytes, e \in BusErrors :
       LET w == waitStartBlock(expired, status, r, e) IN
       /\ IF expired THEN UNCHANGED <<bus, status>>
          ELSE Exchange(<<255>>, e) /\ status' = r
       /\ IF w = "loop"
          THEN /\ polls' = polls + 1
               /\ UNCHANGED <<cid, csd, pc, cpc, csv, result, lastInit, regI>>
          ELSE IF w = "err"
          THEN /\ RegFail(e)
               /\ UNCHANGED <<polls, regI>>
          ELSE IF w = "errWaitStartBlock"
          THEN /\ RegFail(errWaitStartBlock)
               /\ UNCHANGED <<polls, regI>>
          ELSE /\ pc' = "i_reg_data"
               /\ regI' = 0
               /\ UNCHANGED <<cid, csd, cpc, csv, result, lastInit, polls>>
  /\ UNCHANGED <<card, kind, numblocks, buf, lastCRC, args, op,
                 cmdv, r1, cmds, calls, tries, respI, reg>>
  /\ UNCHANGED <<statusb, idle0>>
  /\ UNCHANGED <<dataResp, pure>>

\* readRegister, lines 303-309: the 16 bytes of the register go to the tail of buf
ReadRegisterData ==
  /\ op = "Init" /\ pc = "i_reg_data"
  /\ \E e \in BusErrors, c \in (IF card = NoCard /\ reg = "csd" THEN Cards ELSE {card}) :
       LET r == IF reg = "cid" THEN CIDImage[regI + 1] ELSE c.csd[regI + 1] IN
       /\ card' = c
       /\ Exchange(<<255>>, e)
       /\ IF e # Nil
          THEN /\ RegFail(e)
               /\ UNCHANGED <<buf, regI>>
          ELSE /\ buf' = [buf EXCEPT ![BlockLen - RegLen + regI + 1] = r]
               /\ regI' = IF regI + 1 < RegLen THEN regI + 1 ELSE 0
               /\ pc' = IF regI + 1 < RegLen THEN "i_reg_data" ELSE "i_reg_crc"
               /\ UNCHANGED <<cid, csd, cpc, csv, result, lastInit>>
  /\ UNCHANGED <<kind, numblocks, lastCRC, args, op,
                 cmdv, r1, status, cmds, calls, polls, tries, respI, reg>>
  /\ UNCHANGED <<statusb, idle0>>
  /\ UNCHANGED <<dataResp, pure>>

\* the register image readRegister left in buf[len(buf)-16:]
RegBuf == SubSeq(buf, BlockLen - RegLen + 1, BlockLen)

\* a variant of lines 177-181 without the test for a count of zero
BlockCountError_NoZero(nb) ==
  IF WLess(MaxUint32, nb) THEN errCardNotSupported ELSE Nil

\* lines 177-181: the error Init returns for the block count nb, Nil for none
BlockCountError(nb) ==
  IF WLess(MaxUint32, nb) THEN errCardNotSupported
  ELSE IF nb = WZero THEN errNoblocks
  ELSE Nil

\* readRegister, lines 311-314, and what Init does with the register:
\* after the CID, readCSD (lines 172, 286-288); after the CSD, lines 176-183
ReadRegisterCrc ==
  /\ op = "Init" /\ pc = "i_reg_crc"
  /\ \E e \in BusErrors : Exchange(<<255>>, e)
  /\ IF regI = 0
     THEN /\ regI' = 1
          /\ UNCHANGED <<cid, csd, numblocks, reg, pc, cpc, csv, call, polls, result, lastInit>>
     ELSE IF reg = "cid"
     THEN /\ regI' = 0
          /\ cid' = DecodeCID(RegBuf)
          /\ StartCmd(CMD9_SEND_CSD, PutUint32(0), 255)
          /\ reg' = "csd"
          /\ pc' = "i_reg_cmd"
          /\ UNCHANGED <<csd, numblocks, result, lastInit>>
     ELSE LET nb == CSD_NumberOfBlocks(DecodeCSD(RegBuf)) IN
          /\ regI' = 0
          /\ csd' = DecodeCSD(RegBuf)
          /\ InitReturn(BlockCountError(nb))
          /\ numblocks' = IF BlockCountError(nb) = Nil THEN nb ELSE numblocks
          /\ UNCHANGED <<cid, reg, call, polls>>
  /\ UNCHANGED <<card, kind, buf, lastCRC, args, op,
                 cmdStatus, cmdErr, r1, status, cmds, calls, tries, respI>>
  /\ UNCHANGED <<statusb, idle0>>
  /\ UNCHANGED <<dataResp, pure>>

\* SPICard.NumberOfBlocks
NumberOfBlocks == numblocks

(***************************************************************************)
(* card.go: ReadBlock                                                      *)
(***************************************************************************)
\* the argument of CMD17 / CMD24, lines 198-202 and 232-236
BlockArg(b) == IF kind # TypeSDHC THEN PutUint32Shl9(b) ELSE PutUint32(b)

\* a variant of the checks that rejects only a buffer longer than 512 bytes
CheckIO_LongOnly(b, n) ==
  IF n > BlockLen THEN errNeed512
  ELSE IF IntGeW(b, numblocks) THEN errOOB
  ELSE Nil

\* a variant of the checks that rejects only an index above the block count
CheckIO_Above(b, n) ==
  IF n # BlockLen THEN errNeed512
  ELSE IF IntGeW(b - 1, numblocks) THEN errOOB
  ELSE Nil

\* the checks of lines 192-196 and 226-230: the error returned, Nil when both pass
CheckIO(b, n) ==
  IF n # BlockLen THEN errNeed512
  ELSE IF IntGeW(b, numblocks) THEN errOOB
  ELSE Nil

\* ReadBlock / WriteBlock is called: the checks, then cmdEnsure0Status starts the command
CallIO(o, c, b, n) ==
  /\ CanCall
  /\ Enter(o)
  /\ block' = b
  /\ IF CheckIO(b, n) # Nil
     THEN /\ result' = CheckIO(b, n)
          /\ pc' = "done"
          /\ cpc' = "none"
          /\ selected' = selected
          /\ csTouched' = FALSE
          /\ UNCHANGED <<call, polls>>
     ELSE /\ StartCmd(c, BlockArg(b), 255)
          /\ pc' = IF o = "ReadBlock" THEN "r_cmd17" ELSE "w_cmd24"
          /\ result' = Pending
  /\ UNCHANGED <<card, dev>>
  /\ UNCHANGED lastInit
  /\ UNCHANGED <<pure>>

CallReadBlock ==
  \E b \in BlockInputs, n \in LenInputs :
    /\ CallIO("ReadBlock", CMD17_READ_SINGLE_BLOCK, b, n)
    /\ dst' = [i \in 1..n |-> 0]
    /\ src' = <<>>

\* lines 202-208: CMD17 has returned
ReadBlockAfterCmd17 ==
  /\ op = "ReadBlock" /\ pc = "r_cmd17" /\ cpc = "ret"
  /\ LET err == cmdEnsure0Status(cmdStatus, cmdErr) IN
     IF err # Nil
     THEN /\ Return(err, FALSE)
          /\ UNCHANGED <<status, polls>>
     ELSE /\ status' = 255
          /\ polls' = 0
          /\ pc' = "r_wsb"
          /\ cpc' = "none"
          /\ UNCHANGED <<csv, result>>
  /\ UNCHANGED <<card, dev, args, bus, op, cmdv, r1, cmds, calls, tries, respI, regI, reg>>
  /\ UNCHANGED <<statusb, idle0, lastInit>>
  /\ UNCHANGED <<dataResp, pure>>

\* line 208: waitStartBlock; from here on the deferred csEnable(false) of line 206 runs
ReadBlockWaitStartBlock ==
  /\ op = "ReadBlock" /\ pc = "r_wsb"
  /\ \E expired \in Expired(polls, MaxPolls), r \in TokenBytes, e \in BusErrors :
       LET w == waitStartBlock(expired, status, r, e) IN
       /\ IF expired THEN UNCHANGED <<bus, status>>
          ELSE Exchange(<<255>>, e) /\ status' = r
       /\ IF w = "loop"
          THEN /\ polls' = polls + 1
               /\ UNCHANGED <<pc, cpc, csv, result>>
          ELSE IF w = "err"
          THEN /\ Return(e, TRUE)
               /\ UNCHANGED polls
          ELSE IF w = "errWaitStartBlock"
          THEN /\ Return(errWaitStartBlock, TRUE)
               /\ UNCHANGED polls
          ELSE /\ pc' = "r_data"
               /\ UNCHANGED <<cpc, csv, result, polls>>
  /\ UNCHANGED <<card, dev, args, op, cmdv, r1, cmds, calls, tries, respI, regI, reg>>
  /\ UNCHANGED <<statusb, idle0, lastInit>>
  /\ UNCHANGED <<dataResp, pure>>

\* lines 211-215: Tx(buf, dst) sends the scratch buffer and receives the block into dst
ReadBlockData ==
  /\ op = "ReadBlock" /\ pc = "r_data"
  /\ \E e \in BusErrors :
       /\ Exchange(buf, e)
       /\ IF e # Nil
          THEN /\ Return(e, TRUE)
               /\ UNCHANGED <<dst, regI>>
          ELSE /\ dst' = Payload
               /\ regI' = 0
               /\ pc' = "r_crc"
               /\ UNCHANGED <<cpc, csv, result>>
  /\ UNCHANGED <<card, dev, block, src, op, cmdv, r1, status, cmds, calls,
                 polls, tries, respI, reg>>
  /\ UNCHANGED <<statusb, idle0, lastInit>>
  /\ UNCHANGED <<dataResp, pure>>

\* lines 218-221: the two CRC bytes, errors dropped
ReadBlockCrc ==
  /\ op = "ReadBlock" /\ pc = "r_crc"
  /\ \E b \in CrcBytes, e \in BusErrors :
       /\ Exchange(<<255>>, e)
       /\ IF regI = 0
          THEN /\ status' = b
               /\ regI' = 1
               /\ UNCHANGED <<lastCRC, pc, cpc, csv, result>>
          ELSE /\ lastCRC' = BitOr(status * 256, b)
               /\ regI' = 0
               /\ Return(Nil, TRUE)
               /\ UNCHANGED status
  /\ UNCHANGED <<card, kind, numblocks, cid, csd, buf, args, op,
                 cmdv, r1, cmds, calls, polls, tries, respI, reg>>
  /\ UNCHANGED <<statusb, idle0, lastInit>>
  /\ UNCHANGED <<dataResp, pure>>

(***************************************************************************)
(* card.go: WriteBlock                                                     *)
(***************************************************************************)
CallWriteBlock ==
  \E b \in BlockInputs, n \in LenInputs :
    /\ CallIO("WriteBlock", CMD24_WRITE_BLOCK, b, n)
    /\ src' = [i \in 1..n |-> 90]
    /\ dst' = <<>>

\* lines 236-240: CMD24 has returned
WriteBlockAfterCmd24 ==
  /\ op = "WriteBlock" /\ pc = "w_cmd24" /\ cpc = "ret"
  /\ LET err == cmdEnsure0Status(cmdStatus, cmdErr) IN
     IF err # Nil
     THEN Return(err, FALSE)
     ELSE /\ pc' = "w_token"
          /\ cpc' = "none"
          /\ UNCHANGED <<csv, result>>
  /\ UNCHANGED <<card, dev, args, bus, op, cmdv, r1, status, cmds, calls, loops>>
  /\ UNCHANGED <<statusb, idle0, lastInit>>
  /\ UNCHANGED <<dataResp, pure>>

\* lines 242-243: the start token; the result of Transfer is dropped
WriteBlockToken ==
  /\ op = "WriteBlock" /\ pc = "w_token"
  /\ \E e \in BusErrors : Exchange(<<254>>, e)
  /\ pc' = "w_data"
  /\ UNCHANGED <<card, dev, csv, args, op, cpc, result, cmdv, r1, status, cmds, calls, loops>>
  /\ UNCHANGED <<statusb, idle0, lastInit>>
  /\ UNCHANGED <<dataResp, pure>>

\* lines 245-248: the payload
WriteBlockData ==
  /\ op = "WriteBlock" /\ pc = "w_data"
  /\ \E e \in BusErrors :
       /\ Exchange(SubSeq(src, 1, BlockLen), e)
       /\ IF e # Nil
          THEN Return(e, TRUE)
          ELSE /\ pc' = "w_crc"
               /\ UNCHANGED <<cpc, csv, result>>
  /\ regI' = 0
  /\ UNCHANGED <<card, dev, args, op, cmdv, r1, status, cmds, calls, polls, tries, respI, reg>>
  /\ UNCHANGED <<statusb, idle0, lastInit>>
  /\ UNCHANGED <<dataResp, pure>>

\* lines 251-252: two dummy CRC bytes; the results of Transfer are dropped
WriteBlockCrc ==
  /\ op = "WriteBlock" /\ pc = "w_crc"
  /\ \E e \in BusErrors : Exchange(<<255>>, e)
  /\ regI' = IF regI = 0 THEN 1 ELSE 0
  /\ pc' = IF regI = 0 THEN "w_crc" ELSE "w_resp"
  /\ UNCHANGED <<card, dev, csv, args, op, cpc, result, cmdv, r1, status, cmds, calls,
                 polls, tries, respI, reg>>
  /\ UNCHANGED <<statusb, idle0, lastInit>>
  /\ UNCHANGED <<dataResp, pure>>

\* a variant of line 259 that tests the low four bits only
DataAccepted_LowNibble(r) == BitAnd(r, 15) = 5

\* line 259: the test of the data-response byte
DataAccepted(r) == BitAnd(r, 31) = 5

\* lines 255-264: the data-response token, then waitNotBusy(600ms) starts
WriteBlockResp ==
  /\ op = "WriteBlock" /\ pc = "w_resp"
  /\ \E r \in DataRespBytes, e \in BusErrors :
       /\ Exchange(<<255>>, e)
       /\ dataResp' = r
       /\ IF e # Nil
          THEN /\ Return(e, TRUE)
               /\ UNCHANGED <<status, polls>>
          ELSE IF ~DataAccepted(r)
          THEN /\ Return(errWrite, TRUE)
               /\ UNCHANGED <<status, polls>>
          ELSE /\ status' = 0
               /\ polls' = 0
               /\ pc' = "w_busy"
               /\ UNCHANGED <<cpc, csv, result>>
  /\ UNCHANGED <<card, dev, args, op, cmdv, r1, cmds, calls, tries, respI, regI, reg>>
  /\ UNCHANGED <<statusb, idle0, lastInit>>
  /\ UNCHANGED <<pure>>

\* lines 264-269: waitNotBusy(600ms); an error of it becomes errWriteTimeout
WriteBlockWaitNotBusy ==
  /\ op = "WriteBlock" /\ pc = "w_busy"
  /\ \E expired \in Expired(polls, MaxPolls), r \in BusyBytes, e \in BusErrors :
       LET w == waitNotBusy(expired, r, e) IN
       /\ IF expired THEN UNCHANGED <<bus, status>>
          ELSE Exchange(<<255>>, e) /\ status' = r
       /\ IF w = "loop"
          THEN /\ polls' = polls + 1
               /\ UNCHANGED <<pc, cpc, csv, result>>
          ELSE IF w = "err"
          THEN /\ Return(errWriteTimeout, TRUE)
               /\ UNCHANGED polls
          ELSE /\ Return(Nil, TRUE)
               /\ UNCHANGED polls
  /\ UNCHANGED <<card, dev, args, op, cmdv, r1, cmds, calls, tries, respI, regI, reg>>
  /\ UNCHANGED <<statusb, idle0, lastInit>>
  /\ UNCHANGED <<dataResp, pure>>

Next ==
  \/ CallInit \/ InitClock10 \/ InitClock \/ InitCmd0Loop \/ InitAfterCmd0
  \/ InitAfterCmd8 \/ InitR7 \/ InitAcmdLoop \/ InitAfterCmd55 \/ InitAfterAcmd41
  \/ InitAfterCmd58 \/ InitOcrFirst \/ InitOcrRest \/ InitAfterCmd16
  \/ ReadRegisterAfterCmd \/ ReadRegisterWaitStartBlock \/ ReadRegisterData
  \/ ReadRegisterCrc
  \/ CallReadBlock \/ ReadBlockAfterCmd17 \/ ReadBlockWaitStartBlock
  \/ ReadBlockData \/ ReadBlockCrc
  \/ CallWriteBlock \/ WriteBlockAfterCmd24 \/ WriteBlockToken \/ WriteBlockData
  \/ WriteBlockCrc \/ WriteBlockResp \/ WriteBlockWaitNotBusy
  \/ CmdWaitNotBusy \/ CmdFrame \/ CmdResp \/ CmdTimeout

Spec == Init /\ [][Next]_vars


(***************************************************************************)
(* definitions.go and putCmd as functions of their input: a byte image is  *)
(* chosen at the start and one function is applied to it.                  *)
(***************************************************************************)
\* CSD register images: both structure versions, with the bytes that hold
\* READ_BL_LEN and the size fields varied
CsdImages ==
  { [i \in 1..16 |->
       CASE i = 1  -> b0
         [] i = 6  -> b5
         [] i = 7  -> b6
         [] i = 8  -> b7
         [] i = 9  -> b8
         [] i = 10 -> b9
         [] i = 11 -> b10
         [] i = 16 -> 1
         [] OTHER  -> 0] :
      b0 \in {0, 64}, b5 \in {89, 91}, b6 \in {0, 3}, b7 \in {0, 1, 255},
      b8 \in {0, 192, 255}, b9 \in {0, 1, 3}, b10 \in {0, 128} }

\* the first 15 bytes of three CSD images
CsdBodies ==
  { [i \in 1..15 |-> 0], SubSeq(CSDv1Small, 1, 15), SubSeq(CSDv2Card, 1, 15) }

\* CSD images with the last byte (CRC7 and the always-1 bit) varied
CrcImages == { Append(b, last) : b \in CsdBodies, last \in {0, 1, 128, 129, 176, 177, 208, 209} }

\* command index and big-endian argument of a command frame
CmdInputs ==
  { <<CMD0_GO_IDLE_STATE, 0, 0, 0, 0>>, <<CMD8_SEND_IF_COND, 0, 0, 1, 170>>,
    <<CMD17_READ_SINGLE_BLOCK, 0, 0, 0, 0>>, <<CMD17_READ_SINGLE_BLOCK, 0, 0, 2, 0>>,
    <<CMD58_READ_OCR, 0, 0, 0, 0>>, <<ACMD41_SD_APP_OP_COND, 64, 0, 0, 0>> }

\* byte sequences CRC7 is applied to
CrcInputs ==
  { <<>>, <<1>>, <<128>>, <<255>>, <<64, 0, 0, 0, 0>>, <<72, 0, 0, 1, 170>> }

\* CSD images with the structure, TAAC and TRAN_SPEED bytes varied
SpeedImages ==
  { [i \in 1..16 |->
       CASE i = 1  -> b0
         [] i = 2  -> b1
         [] i = 4  -> b3
         [] i = 6  -> 89
         [] i = 16 -> 1
         [] OTHER  -> 0] :
      b0 \in {0, 64, 128}, b1 \in {14, 47, 127}, b3 \in {50, 90, 55} }

InitDecode ==
  /\ NewSPICard
  /\ image \in CsdImages \cup CrcImages \cup CmdInputs \cup CrcInputs \cup SpeedImages
  /\ fn = "none"
  /\ out = 0

\* CSD.DeviceCapacity of the CSD DecodeCSD makes of the image
ApplyDeviceCapacity ==
  /\ fn = "none" /\ Len(image) = 16
  /\ fn' = "DeviceCapacity"
  /\ out' = DeviceCapacity(DecodeCSD(image))
  /\ UNCHANGED <<image, session>>

\* CSD.NumberOfBlocks
ApplyNumberOfBlocks ==
  /\ fn = "none" /\ Len(image) = 16
  /\ fn' = "NumberOfBlocks"
  /\ out' = CSD_NumberOfBlocks(DecodeCSD(image))
  /\ UNCHANGED <<image, session>>

\* CSD.IsValid
ApplyIsValid ==
  /\ fn = "none" /\ Len(image) = 16
  /\ fn' = "IsValid"
  /\ out' = CSD_IsValid(DecodeCSD(image))
  /\ UNCHANGED <<image, session>>

\* CRC7(image)
ApplyCRC7 ==
  /\ fn = "none"
  /\ fn' = "CRC7"
  /\ out' = CRC7(image)
  /\ UNCHANGED <<image, session>>

\* putCmd(dst, cmd, arg) with image = cmd and the four bytes of arg; out is dst[:6]
ApplyPutCmd ==
  /\ fn = "none" /\ image \in CmdInputs
  /\ fn' = "putCmd"
  /\ out' = putCmd(image[1], SubSeq(image, 2, 5))
  /\ UNCHANGED <<image, session>>

\* CSD.TransferSpeed().RateKilobits()
ApplyRateKilobits ==
  /\ fn = "none" /\ Len(image) = 16
  /\ fn' = "RateKilobits"
  /\ out' = RateKilobits(CSD_TransferSpeed(DecodeCSD(image)))
  /\ UNCHANGED <<image, session>>

\* CSD.TAAC().AccessTime()
ApplyAccessTime ==
  /\ fn = "none" /\ Len(image) = 16
  /\ fn' = "AccessTime"
  /\ out' = AccessTime(CSD_TAAC(DecodeCSD(image)))
  /\ UNCHANGED <<image, session>>

\* CSD.String
ApplyString ==
  /\ fn = "none" /\ Len(image) = 16
  /\ fn' = "String"
  /\ out' = CSD_String(DecodeCSD(image))
  /\ UNCHANGED <<image, session>>

NextDecode ==
  \/ ApplyDeviceCapacity \/ ApplyNumberOfBlocks \/ ApplyIsValid
  \/ ApplyCRC7 \/ ApplyPutCmd
  \/ ApplyRateKilobits \/ ApplyAccessTime \/ ApplyString

SpecDecode == InitDecode /\ [][NextDecode]_vars

(***************************************************************************)
(* The claims                                                              *)
(***************************************************************************)
\* the call in progress, or the last one made, is a block read or a block write
InBlockIO == op \in {"ReadBlock", "WriteBlock"}

\* the buffer the caller handed to that call
CallerBuffer == IF op = "ReadBlock" THEN dst ELSE src

\* the call has touched neither the bus nor the chip-select line
NothingDone == ~touched /\ ~csTouched /\ cmds = <<>>

\* the frame of CMD0 with argument 0 and CRC byte 0x95
Cmd0Frame == <<64, 0, 0, 0, 0, 149>>

\* C1: ReadBlock / WriteBlock with a buffer whose length is not 512 returns
\* errNeed512, and has made no bus exchange and no chip-select change.
C1_Need512 ==
  (InBlockIO /\ Len(CallerBuffer) # 512)
    => (pc = "done" /\ result = errNeed512 /\ NothingDone)

C1_Witness ==
  /\ op = "WriteBlock" /\ pc = "done"
  /\ Len(src) = 511
  /\ numblocks # WZero
  /\ block = 0
  /\ result = errNeed512

\* C2: ReadBlock / WriteBlock with a 512-byte buffer and an index at or above
\* the block count returns errOOB, with no bus exchange and no chip-select
\* change; with a block count of 0 every index from 0 up is rejected so.
C2_OutOfBounds ==
  /\ (InBlockIO /\ Len(CallerBuffer) = 512 /\ IntGeW(block, NumberOfBlocks))
       => (pc = "done" /\ result = errOOB /\ NothingDone)
  /\ (InBlockIO /\ Len(CallerBuffer) = 512 /\ NumberOfBlocks = WZero /\ block >= 0)
       => (pc = "done" /\ result = errOOB /\ NothingDone)

C2_Witness ==
  /\ op = "ReadBlock" /\ pc = "done"
  /\ Len(dst) = 512
  /\ numblocks = WFromInt(4)
  /\ block = 4
  /\ result = errOOB

\* C3: a read or a write is attempted (the bus or the chip-select line is
\* driven) only when 0 <= index < NumberOfBlocks().
C3_AttemptedOnlyInRange ==
  (InBlockIO /\ (touched \/ csTouched))
    => (block >= 0 /\ ~IntGeW(block, NumberOfBlocks))

\* C4: kind and the block count change only in the step in which Init
\* returns success.
C4_ChangeOnlyOnInitSuccess ==
  [][ (kind' # kind \/ numblocks' # numblocks)
        => (op = "Init" /\ pc' = "done" /\ result' = Nil) ]_vars

\* C5: when the last call of Init returned an error, ReadBlock / WriteBlock
\* with a 512-byte buffer and an index from 0 up issues no command.
C5_NotReadyAfterFailedInit ==
  (InBlockIO /\ lastInit = "err" /\ Len(CallerBuffer) = 512 /\ block >= 0)
    => (pc = "done" /\ NothingDone)

\* C6: on a fresh session, when no transport error occurs and no CMD0 is
\* answered with exactly 0x01, Init returns errNoSDCard, every command it
\* issued is CMD0, and the block count is still 0.
C6_NoCard ==
  (op = "Init" /\ pc = "done" /\ calls = 1 /\ errSeen = Nil /\ ~idle0)
    => /\ result = errNoSDCard
       /\ \A i \in 1..Len(cmds) : cmds[i] = Cmd0Frame
       /\ numblocks = WZero

C6_Witness ==
  /\ op = "Init" /\ pc = "done" /\ calls = 1 /\ errSeen = Nil /\ ~idle0
  /\ Len(cmds) >= 1
  /\ cmdStatus = 5
  /\ result = errNoSDCard

\* C7: when Init returns success, the card is TypeSDHC if the top two bits of
\* the first OCR byte are both set, and TypeSD2 otherwise.
C7_KindFromOcr ==
  (op = "Init" /\ pc = "done" /\ result = Nil)
    => /\ ((statusb \div 64) % 4 = 3) => kind = TypeSDHC
       /\ ((statusb \div 64) % 4 # 3) => kind = TypeSD2

C7_Witness ==
  /\ op = "Init" /\ pc = "done" /\ result = Nil
  /\ statusb = 192
  /\ kind = TypeSDHC
  /\ numblocks # WZero

\* C8: when ReadBlock's wait for the start-block token ends without a
\* transport error and the byte it ended on is not 0xFE (0xFF at the deadline,
\* or a first byte other than 0xFF and 0xFE), ReadBlock returns
\* errWaitStartBlock, the card is deselected and the caller's buffer is as
\* it was handed in.
C8_NoStartBlock ==
  [][ (op = "ReadBlock" /\ pc = "r_wsb" /\ pc' # "r_wsb"
         /\ busErrs' = busErrs /\ status' # 254)
        => /\ pc' = "done"
           /\ result' = errWaitStartBlock
           /\ selected' = FALSE
           /\ dst' = [i \in 1..512 |-> 0] ]_vars

C8_Witness ==
  /\ op = "ReadBlock" /\ pc = "done"
  /\ result = errWaitStartBlock
  /\ status = 255
  /\ errSeen = Nil
  /\ ~selected
  /\ dst = [i \in 1..512 |-> 0]

\* C9: a call in which a bus exchange returned a transport error returns that
\* error.
C9_TransportErrorSurfaces ==
  (pc = "done" /\ errSeen # Nil) => result = errSeen

\* C10: WriteBlock of a block the card has returns success only when a 0xFF
\* byte was received in the wait for the card to finish programming.
C10_SuccessOnlyWhenReady ==
  (op = "WriteBlock" /\ pc = "done" /\ block >= 0 /\ result = Nil) => status = 255

\* the fields of a CSD image by their register bits: READ_BL_LEN [83:80],
\* C_SIZE of version 1 [73:62], C_SIZE_MULT [49:47], C_SIZE of version 2 [69:48]
FieldStructure == image[1] \div 64
FieldReadBlLen == image[6] % 16
FieldCSizeV1 == (image[7] % 4) * 1024 + image[8] * 4 + image[9] \div 64
FieldCSizeMult == (image[10] % 4) * 2 + image[11] \div 128
FieldCSizeV2 == (image[8] % 64) * 65536 + image[9] * 256 + image[10]

\* C11: DeviceCapacity of a version-1 CSD image is
\* (C_SIZE+1) * 2^(2+C_SIZE_MULT) * 2^READ_BL_LEN, the product not wrapped.
C11_V1CapacityExact ==
  (fn = "DeviceCapacity" /\ FieldStructure = 0)
    => out = WMul(WMul(WFromInt(FieldCSizeV1 + 1), WFromInt(2 ^ (2 + FieldCSizeMult))),
                  WFromInt(2 ^ FieldReadBlLen))

\* C12: DeviceCapacity of a version-2 CSD image is C_SIZE * 512000, C_SIZE
\* being the low 6 bits of byte 7, then byte 8, then byte 9.
C12_V2CapacityExact ==
  (fn = "DeviceCapacity" /\ FieldStructure = 1)
    => out = WMul(WFromInt(FieldCSizeV2), WFromInt(512000))

\* the 7-bit CRC of a byte sequence for the generator x^7 + x^3 + 1 with
\* initial value 0, one message bit at a time, most significant bit first
\* one step of the shift register: the CRC after the message bit
Crc7Step ==
  [crc \in 0..127, bit \in 0..1 |->
     LET top == ((crc \div 64) + bit) % 2
         sh  == (crc * 2) % 128
     IN  IF top = 0 THEN sh
         ELSE sh + 9 - 2 * ((sh % 2) + 8 * ((sh \div 8) % 2))]

RECURSIVE Crc7Bits(_, _, _)
Crc7Bits(crc, b, k) ==
  IF k = 8 THEN crc
  ELSE Crc7Bits(Crc7Step[crc, (b \div (2 ^ (7 - k))) % 2], b, k + 1)

\* the CRC of the first n bytes of data
RECURSIVE Crc7Upto(_, _)
Crc7Upto(data, n) ==
  IF n = 0 THEN 0
  ELSE LET prev == Crc7Upto(data, n - 1)
       IN  IF prev \in 0..127 THEN Crc7Bits(prev, data[n], 0) ELSE prev

Crc7Poly(data) == Crc7Upto(data, Len(data))

\* C13: IsValid is true exactly when the CRC7 of bytes 0..14 equals bits 7:1
\* of byte 15 and bit 0 of byte 15 is 1.
C13_IsValidIffCrcAndStopBit ==
  (fn = "IsValid")
    => (out <=> (Crc7Poly(SubSeq(image, 1, 15)) = image[16] \div 2 /\ image[16] % 2 = 1))

\* C14: CRC7 returns the 7-bit CRC of its input, and the last byte of the
\* frame putCmd builds is that CRC of the first five bytes in bits 7:1 with
\* bit 0 set (0x95 for the go-idle frame 40 00 00 00 00).
C14_Crc7AndFrameByte ==
  /\ (fn = "CRC7") => out = Crc7Poly(image)
  /\ (fn = "putCmd") => out[6] = 2 * Crc7Poly(SubSeq(out, 1, 5)) + 1
  /\ (fn = "putCmd" /\ image = <<0, 0, 0, 0, 0>>) => out = <<64, 0, 0, 0, 0, 149>>

\* the steps at which a caller of cmdEnsure0Status takes up what cmd returned
AfterEnsure0Status == pc \in {"i_cmd58", "i_cmd16", "i_reg_cmd", "r_cmd17", "w_cmd24"}

\* C15: after the frame, cmd polls single filler bytes, at most 0xFFFF of
\* them; a byte with the top bit clear is returned as the status with the
\* card still selected; when none arrives cmd deselects the card, sends one
\* filler byte and returns 0xFF without error, which cmdEnsure0Status turns
\* into a response error.
C15_ResponsePoll ==
  [][ /\ (cpc = "resp") => (respI < 65535 /\ mosi' = <<255>>)
      /\ (cpc = "resp" /\ cpc' = "ret")
           => (cmdStatus' < 128 /\ cmdErr' = Nil /\ selected')
      /\ (cpc = "resp" /\ cpc' # "ret")
           => (UNCHANGED <<cmdStatus, cmdErr, selected>>
               /\ (cpc' = "timeout" <=> respI' = 65535))
      /\ (cpc = "timeout")
           => (cpc' = "ret" /\ ~selected' /\ mosi' = <<255>>
               /\ cmdStatus' = 255 /\ cmdErr' = Nil)
      /\ (cpc = "ret" /\ cmdErr = Nil /\ cmdStatus = 255 /\ AfterEnsure0Status)
           => (pc' = "done" /\ result' = [name |-> "response1Err", status |-> 255])
    ]_vars

C15_Witness ==
  /\ op = "ReadBlock" /\ pc = "done"
  /\ cmdStatus = 255 /\ cmdErr = Nil
  /\ result = [name |-> "response1Err", status |-> 255]
  /\ ~selected

\* the frame of CMD8 with argument 0x1AA and CRC byte 0x87
Cmd8Frame == <<72, 0, 0, 1, 170, 135>>

\* C16: Init probes the version with CMD8, argument 0x1AA, CRC byte 0x87.  A
\* status with the illegal-command flag makes Init return
\* errCardNotSupported.  Otherwise Init reads the R7 bytes in order and goes
\* on only when the low nibble of the third is 1 and the fourth is 0xAA; on
\* either mismatch it returns a response error and issues no further command.
C16_VersionProbe ==
  [][ /\ (op = "Init" /\ pc = "i_cmd8" /\ cpc = "ret")
           => /\ cmds[Len(cmds)] = Cmd8Frame
              /\ cmds' = cmds
              /\ (cmdErr = Nil /\ (cmdStatus \div 4) % 2 = 1)
                   => (pc' = "done" /\ result' = errCardNotSupported)
              /\ (cmdErr = Nil /\ (cmdStatus \div 4) % 2 = 0)
                   => (pc' = "i_r7" /\ regI' = 0)
      /\ (op = "Init" /\ pc = "i_r7" /\ busErrs' = busErrs)
           => /\ mosi' = <<255>>
              /\ cmds' = cmds /\ cmds[Len(cmds)] = Cmd8Frame
              /\ (regI = 3) => status % 16 = 1
              /\ (regI = 2 /\ status' % 16 # 1)
                   => (pc' = "done" /\ result' = [name |-> "response1Err", status |-> status'])
              /\ (regI = 3 /\ status' # 170)
                   => (pc' = "done" /\ result' = [name |-> "response1Err", status |-> status'])
              /\ (pc' = "done") => (regI \in {2, 3} /\ result' # Nil)
              /\ (pc' \notin {"i_r7", "done"}) => (regI = 3 /\ status' = 170)
              /\ (pc' = "i_r7") => regI' = regI + 1
    ]_vars

C16_Witness ==
  /\ op = "Init" /\ pc = "done"
  /\ regI = 3 /\ status = 1
  /\ result = [name |-> "response1Err", status |-> 1]
  /\ cmds[Len(cmds)] = Cmd8Frame

\* the steps of Init that follow the operating-condition negotiation
PastNegotiation ==
  /\ op = "Init"
  /\ \/ pc \in {"i_cmd58", "i_ocr", "i_cmd16", "i_reg_cmd", "i_reg_wsb",
                 "i_reg_data", "i_reg_crc"}
     \/ pc = "done" /\ result = Nil

\* an ACMD41 frame was sent during the current call
Acmd41Sent == \E i \in 1..Len(cmds) : cmds[i][1] = 64 + ACMD41_SD_APP_OP_COND

\* C17: Init goes past the operating-condition negotiation (OCR read,
\* set-block-length, register capture) only if an ACMD41 issued during the
\* same call of Init returned status 0; with no such ACMD41 before the
\* deadline Init returns a response error.
C17_NegotiationGate == PastNegotiation => Acmd41Sent

\* C18: at the end of Init the block count computed from the captured CSD
\* is checked: above 2^32-1 Init returns errCardNotSupported, at 0 it returns
\* errNoblocks; after every successful Init NumberOfBlocks() is in
\* 1..2^32-1 and equals CSD().NumberOfBlocks().
C18_BlockCountChecked ==
  /\ [](((op = "Init" => pc = "done") /\ lastInit = "ok")
          => /\ NumberOfBlocks # WZero
             /\ ~WLess(MaxUint32, NumberOfBlocks)
             /\ NumberOfBlocks = CSD_NumberOfBlocks(csd))
  /\ [][ (op = "Init" /\ pc = "i_reg_crc" /\ reg = "csd" /\ regI = 1)
           => /\ pc' = "done"
              /\ WLess(MaxUint32, CSD_NumberOfBlocks(csd'))
                   => (result' = errCardNotSupported /\ numblocks' = numblocks)
              /\ (CSD_NumberOfBlocks(csd') = WZero)
                   => (result' = errNoblocks /\ numblocks' = numblocks)
              /\ (result' = Nil) => numblocks' = CSD_NumberOfBlocks(csd')
       ]_vars

C18_Witness ==
  /\ op = "Init" /\ pc = "done"
  /\ result = errNoblocks
  /\ CSD_NumberOfBlocks(csd) = WZero

\* the 32-bit argument of the last command frame sent
LastArg ==
  LET f == cmds[Len(cmds)] IN
  WAdd(WMul(WFromInt(f[2] * 256 + f[3]), WFromInt(65536)), WFromInt(f[4] * 256 + f[5]))

\* C19: for every index accepted by ReadBlock / WriteBlock the 32-bit
\* argument sent with CMD17 / CMD24 is the index itself on an SDHC/SDXC card
\* and index * 512 otherwise, so two distinct accepted indices are never sent
\* as the same argument.
C19_BlockAddress ==
  (InBlockIO /\ cmds # <<>> /\ block >= 0)
    => LastArg = IF kind = TypeSDHC
                 THEN WFromInt(block)
                 ELSE WMul(WFromInt(block), WFromInt(BlockLen))

\* C20: after CMD24 returned status 0, WriteBlock sends the start token
\* 0xFE, then the 512 payload bytes, then two dummy CRC bytes, then reads one
\* data-response byte; when the low 5 bits of that byte are not 0b00101 it
\* returns errWrite without waiting for not-busy, and it never returns
\* success when the token was not 0b00101.
C20_WriteSequence ==
  /\ []((op = "WriteBlock" /\ pc = "done" /\ result = Nil) => dataResp % 32 = 5)
  /\ [][ (op = "WriteBlock") =>
           /\ (pc = "w_cmd24" /\ cpc = "ret" /\ pc' # "done")
                => (cmdStatus = 0 /\ cmdErr = Nil /\ pc' = "w_token")
           /\ (pc = "w_token") => (mosi' = <<254>> /\ pc' = "w_data")
           /\ (pc = "w_data")
                => /\ Len(mosi') = 512 /\ mosi' = src
                   /\ (busErrs' = busErrs) => (pc' = "w_crc" /\ regI' = 0)
           /\ (pc = "w_crc")
                => /\ mosi' = <<255>>
                   /\ (regI = 0) => (pc' = "w_crc" /\ regI' = 1)
                   /\ (regI = 1) => pc' = "w_resp"
           /\ (pc = "w_resp")
                => /\ mosi' = <<255>>
                   /\ (busErrs' = busErrs /\ dataResp' % 32 # 5)
                        => (pc' = "done" /\ result' = errWrite)
                   /\ (pc' = "w_busy") => dataResp' % 32 = 5
           /\ (pc' = "w_busy") => pc \in {"w_resp", "w_busy"}
       ]_vars

C20_Witness ==
  /\ op = "WriteBlock" /\ pc = "done"
  /\ dataResp = 245
  /\ result = errWrite
  /\ mosi = <<255>>

\* the stage of the sequence CMD0+ CMD8 (CMD55 ACMD41)+ CMD58 CMD16 CMD10 CMD9
\* reached from stage st by the frame f; 99 when f is out of order
OrderStep(st, f) ==
  LET c == f[1] - 64
      a == SubSeq(f, 2, 5)
  IN  IF st \in {0, 1} /\ c = CMD0_GO_IDLE_STATE THEN 1
      ELSE IF st = 1 /\ c = CMD8_SEND_IF_COND THEN 2
      ELSE IF st \in {2, 4} /\ c = CMD55_APP_CMD /\ a = <<0, 0, 0, 0>> THEN 3
      ELSE IF st = 3 /\ c = ACMD41_SD_APP_OP_COND THEN 4
      ELSE IF st = 4 /\ c = CMD58_READ_OCR THEN 5
      ELSE IF st = 5 /\ c = CMD16_SET_BLOCKLEN /\ a = <<0, 0, 2, 0>> THEN 6
      ELSE IF st = 6 /\ c = CMD10_SEND_CID THEN 7
      ELSE IF st = 7 /\ c = CMD9_SEND_CSD THEN 8
      ELSE 99

RECURSIVE OrderStage(_, _)
\* the stage reached after the first n frames of fs
OrderStage(fs, n) ==
  IF n = 0 THEN 0
  ELSE LET prev == OrderStage(fs, n - 1)
       IN  IF prev \in 0..8 THEN OrderStep(prev, fs[n]) ELSE prev

\* C21: every Init that returns success issued its commands in the order:
\* one or more CMD0, one CMD8, one or more pairs CMD55 (argument 0) then
\* ACMD41, one CMD58, one CMD16 with argument 512, CMD10, CMD9.
C21_InitCommandOrder ==
  (op = "Init" /\ pc = "done" /\ result = Nil) => OrderStage(cmds, Len(cmds)) = 8

\* C22: whenever Init, ReadBlock or WriteBlock returns, with success or with
\* any error, the card is deselected; no return path, a non-zero status of
\* CMD17 / CMD24 included, leaves the card selected.
\* Stated for Init and for the block calls with a non-negative index that
\* follow a successful Init and in which the transport returned no error.
C22_DeselectedOnReturn ==
  (/\ pc = "done"
   /\ \/ op = "Init"
      \/ InBlockIO /\ lastInit = "ok" /\ block >= 0 /\ errSeen = Nil)
    => ~selected

\* C23: in the data phase of ReadBlock (the 512-byte transfer after the
\* start token) every byte the driver transmits is the filler 0xFF, in any
\* state reached after a successful Init.
C23_ReadSendsFiller ==
  [][ (op = "ReadBlock" /\ pc = "r_data" /\ lastInit = "ok" /\ block >= 0)
        => mosi' = Filler(BlockLen) ]_vars

\* C24: for every 16-byte CSD image TransferSpeed.RateKilobits(),
\* TAAC.AccessTime() and CSD.String() return a value: the index value & 0b111
\* always lies within log10table.
C24_TableIndexInRange ==
  (fn \in {"RateKilobits", "AccessTime", "String"}) => ~out.panic

====
